---- MODULE Spec2Model ----
(***************************************************************************)
(* Model of src/app.py: the products table (SQLite, AUTOINCREMENT key,     *)
(* column type affinity), the CRUD helpers, the LIKE search, the groupby   *)
(* report, the paginated PDF export and the two Streamlit forms.           *)
(*                                                                         *)
(* Values bound to SQL parameters are tagged with their storage class:     *)
(*   t = "null" | "text" | "int" | "real" | "date"                         *)
(* A text is a sequence of one-character strings (field s).  An int is a   *)
(* natural number (field n).  A real is counted in tenths (field n), so    *)
(* RealV(25) is 2.5.  A date is the widget value of st.date_input packed   *)
(* as y*10000 + m*100 + d (field n); it only exists on the Python side.    *)
(***************************************************************************)
EXTENDS Integers, Sequences, FiniteSets, TLC

\* ------------------------------------------------------------ bounds ----
MaxId == 3
MaxKwLen == 2
MaxDfRows == 52

\* ------------------------------------------------------------ values ----
NullV == [t |-> "null", s |-> <<>>, n |-> 0]
TextV(str) == [t |-> "text", s |-> str, n |-> 0]
IntV(k) == [t |-> "int", s |-> <<>>, n |-> k]
RealV(tenths) == [t |-> "real", s |-> <<>>, n |-> tenths]
DateV(ymd) == [t |-> "date", s |-> <<>>, n |-> ymd]

DigitChars == <<"0", "1", "2", "3", "4", "5", "6", "7", "8", "9">>

IsDigit(ch) == \E i \in 1..10 : DigitChars[i] = ch

DigitVal(ch) == (CHOOSE i \in 1..10 : DigitChars[i] = ch) - 1

RECURSIVE NatToText(_)
NatToText(k) ==
    IF k < 10 THEN <<DigitChars[k + 1]>>
    ELSE NatToText(k \div 10) \o <<DigitChars[(k % 10) + 1]>>

\* SQLite renders a REAL as text with at least one fractional digit: 2.5 is
\* "2.5" and 3.0 is "3.0".
RealToText(tenths) == NatToText(tenths \div 10) \o <<".">> \o NatToText(tenths % 10)

AllDigits(str) == Len(str) > 0 /\ \A i \in 1..Len(str) : IsDigit(str[i])

RECURSIVE DigitsToNat(_)
DigitsToNat(str) ==
    IF Len(str) = 0 THEN 0
    ELSE 10 * DigitsToNat(SubSeq(str, 1, Len(str) - 1)) + DigitVal(str[Len(str)])

\* A text is a well-formed integer literal, or a real literal with one
\* fractional digit (the texts of this model never carry more).
IsIntLiteral(str) == AllDigits(str)

IsRealLiteral(str) ==
    /\ Len(str) >= 3
    /\ str[Len(str) - 1] = "."
    /\ IsDigit(str[Len(str)])
    /\ AllDigits(SubSeq(str, 1, Len(str) - 2))

LiteralTenths(str) ==
    IF IsIntLiteral(str) THEN 10 * DigitsToNat(str)
    ELSE 10 * DigitsToNat(SubSeq(str, 1, Len(str) - 2)) + DigitVal(str[Len(str)])

\* ------------------------------------------------------------ schema ----
\* CREATE TABLE products: the declared columns, in declaration order.
TableColumns ==
    << "id", "sno", "date_of_intervention", "yard_location", "batchno",
       "hold_no", "material", "lots_id", "sgs_reference_id", "planned_qty",
       "loaded_qty", "balance_qty", "dry_colour", "wet_colour", "loi", "mgo",
       "sio2", "asbestos", "truck_no", "remarks", "vessel_name",
       "sgs_report_id" >>

RealColumns == {"planned_qty", "loaded_qty", "balance_qty", "loi", "mgo", "sio2"}

ColumnAffinity(c) ==
    IF c = "id" THEN "INTEGER"
    ELSE IF c \in RealColumns THEN "REAL"
    ELSE "TEXT"

AllCols == {TableColumns[i] : i \in 1..Len(TableColumns)}

\* Column affinity applied by SQLite when a value is stored in a column.
\* TEXT: numbers become their text.  REAL: integers become reals, and a text
\* that is a well-formed numeric literal becomes that real; any other text
\* is stored as text.  NULL is stored as NULL under every affinity.
ApplyAffinity(aff, v) ==
    IF v.t = "null" THEN v
    ELSE IF aff = "TEXT" THEN
        IF v.t = "int" THEN TextV(NatToText(v.n))
        ELSE IF v.t = "real" THEN TextV(RealToText(v.n))
        ELSE v
    ELSE IF aff = "REAL" THEN
        IF v.t = "int" THEN RealV(10 * v.n)
        ELSE IF v.t = "text" /\ (IsIntLiteral(v.s) \/ IsRealLiteral(v.s))
            THEN RealV(LiteralTenths(v.s))
        ELSE v
    ELSE v

\* The column list of the INSERT statement, bound positionally to data.
InsertColumns ==
    << "sno", "date_of_intervention", "yard_location", "batchno", "hold_no",
       "material", "lots_id", "sgs_reference_id", "planned_qty", "loaded_qty",
       "balance_qty", "dry_colour", "wet_colour", "loi", "mgo", "sio2",
       "asbestos", "truck_no", "remarks", "vessel_name", "sgs_report_id" >>

\* The SET list of the UPDATE statement, bound positionally to data.
UpdateColumns ==
    << "sno", "date_of_intervention", "yard_location", "batchno", "hold_no",
       "material", "lots_id", "sgs_reference_id", "planned_qty", "loaded_qty",
       "balance_qty", "dry_colour", "wet_colour", "loi", "mgo", "sio2",
       "asbestos", "truck_no", "remarks", "vessel_name", "sgs_report_id" >>

\* The 21 record fields in the order of the table's columns.
SchemaFields == Tail(TableColumns)

PosIn(cols, c) == CHOOSE i \in 1..Len(cols) : cols[i] = c

InCols(cols, c) == \E i \in 1..Len(cols) : cols[i] = c

\* ------------------------------------------------------------- state ----
VARIABLES
    table,      \* rows of products in rowid order; a row maps column -> value
    seq,        \* sqlite_sequence.seq of products: largest rowid ever used
    assigned,   \* history: the identifiers handed out, in order
    last,       \* history: the latest store call and the table before it
    prev,       \* history: the store call before the latest
    search,     \* the latest run of the search in show_search_filter
    chart,      \* the latest aggregation of show_reports
    df,         \* df_to_pdf_bytes: the frame being exported (row numbers)
    page,       \* df_to_pdf_bytes: loop variable
    sub_df,     \* df_to_pdf_bytes: the slice of the current page
    slices,     \* df_to_pdf_bytes: the slices taken so far (history)
    saved,      \* df_to_pdf_bytes: the pages written to pdf_pages
    pc,         \* df_to_pdf_bytes: position in the function
    form        \* history: the latest form submission of the shell

storeVars == <<table, seq, assigned>>
histVars == <<last, prev>>
pdfVars == <<df, page, sub_df, slices, saved, pc>>
vars == <<table, seq, assigned, last, prev, search, chart,
          df, page, sub_df, slices, saved, pc, form>>

\* ------------------------------------------------------ record store ----
Max(a, b) == IF a >= b THEN a ELSE b

RowIds(tbl) == {tbl[i]["id"].n : i \in 1..Len(tbl)}

MaxRowId(tbl) == IF Len(tbl) = 0 THEN 0 ELSE CHOOSE m \in RowIds(tbl) : \A k \in RowIds(tbl) : k <= m

\* A variant of the key allocation that forgets the sequence table, as a
\* plain INTEGER PRIMARY KEY does.
NextRowIdNoSequence(tbl, s) == MaxRowId(tbl) + 1

\* id INTEGER PRIMARY KEY AUTOINCREMENT: one more than the largest rowid that
\* the table has ever held, which SQLite keeps in sqlite_sequence.
NextRowId(tbl, s) == Max(s, MaxRowId(tbl)) + 1

\* A variant of the INSERT that binds the parameters to the columns one
\* place off for two neighbouring TEXT columns.
StoredBySwappedInsert(data, c) ==
    LET cc == IF c = "remarks" THEN "vessel_name"
              ELSE IF c = "vessel_name" THEN "remarks" ELSE c
    IN ApplyAffinity(ColumnAffinity(c), data[PosIn(InsertColumns, cc)])

\* The value that INSERT stores in column c for the parameter tuple data.
StoredByInsert(data, c) ==
    ApplyAffinity(ColumnAffinity(c), data[PosIn(InsertColumns, c)])

InsertRow(tbl, s, data) ==
    Append(tbl, [c \in AllCols |->
        IF c = "id" THEN IntV(NextRowId(tbl, s))
        ELSE IF InCols(InsertColumns, c) THEN StoredByInsert(data, c)
        ELSE NullV])

\* The value that UPDATE stores in column c for the parameter tuple data.
StoredByUpdate(data, c) ==
    ApplyAffinity(ColumnAffinity(c), data[PosIn(UpdateColumns, c)])

\* A variant of the UPDATE whose WHERE clause is missing.
UpdateEveryRow(tbl, record_id, data) ==
    [i \in 1..Len(tbl) |->
        [c \in AllCols |->
            IF InCols(UpdateColumns, c) THEN StoredByUpdate(data, c)
            ELSE tbl[i][c]]]

\* UPDATE products SET <21 columns> WHERE id=?
UpdateRows(tbl, record_id, data) ==
    [i \in 1..Len(tbl) |->
        IF tbl[i]["id"] = IntV(record_id)
        THEN [c \in AllCols |->
                IF InCols(UpdateColumns, c) THEN StoredByUpdate(data, c)
                ELSE tbl[i][c]]
        ELSE tbl[i]]

\* A variant of the DELETE that also removes the rows after the given one.
DeleteFromId(tbl, record_id) ==
    IF record_id \in RowIds(tbl)
    THEN SelectSeq(tbl, LAMBDA r : r["id"].n < record_id)
    ELSE tbl

\* DELETE FROM products WHERE id=?
DeleteRows(tbl, record_id) == SelectSeq(tbl, LAMBDA r : r["id"] # IntV(record_id))

\* SELECT * FROM products: every row, in rowid order.
fetch_records == table

add_record(data) ==
    /\ NextRowId(table, seq) <= MaxId
    /\ table' = InsertRow(table, seq, data)
    /\ seq' = NextRowId(table, seq)
    /\ assigned' = Append(assigned, table'[Len(table')]["id"].n)

update_record(record_id, data) ==
    /\ table' = UpdateRows(table, record_id, data)
    /\ UNCHANGED <<seq, assigned>>

delete_record(record_id) ==
    /\ table' = DeleteRows(table, record_id)
    /\ UNCHANGED <<seq, assigned>>

\* ------------------------------------------------- inputs of the store ----
TupleLetters == <<"p", "q">>

\* A parameter tuple as the forms build it: a string for every TEXT column
\* and a float for every REAL column, all 21 values different.
TypedTuple(k) ==
    [i \in 1..Len(SchemaFields) |->
        IF ColumnAffinity(SchemaFields[i]) = "REAL" THEN RealV(10 * i + k)
        ELSE TextV(<<TupleLetters[k]>> \o NatToText(i))]

\* Values of another storage class than their column, and NULL.
OddCells ==
    { <<1, IntV(5)>>, <<9, TextV(<<"7">>)>>, <<4, NullV>>, <<10, IntV(3)>>,
      <<19, RealV(25)>>, <<14, TextV(<<"x">>)>>, <<11, TextV(<<"1", ".", "5">>)>> }

\* A tuple that carries all of them at once.
OddTuple ==
    [i \in 1..Len(SchemaFields) |->
        IF \E cell \in OddCells : cell[1] = i
        THEN (CHOOSE cell \in OddCells : cell[1] = i)[2]
        ELSE TypedTuple(1)[i]]

StoreInputs == {TypedTuple(2), OddTuple}

NoCall == [op |-> "none", id |-> 0, data |-> <<>>, before |-> <<>>]

NoSearch == [done |-> FALSE, keyword |-> <<>>, over |-> <<>>, result |-> <<>>]

NoChart == [done |-> FALSE, report_type |-> "", over |-> <<>>, data |-> <<>>]

NoForm == [name |-> "none", widgets |-> <<>>, selected_idx |-> 0, shown |-> <<>>]

Init ==
    /\ table = <<>>
    /\ seq = 0
    /\ assigned = <<>>
    /\ last = NoCall
    /\ prev = NoCall
    /\ search = NoSearch
    /\ chart = NoChart
    /\ df = <<>>
    /\ page = 0
    /\ sub_df = <<>>
    /\ slices = <<>>
    /\ saved = <<>>
    /\ pc = "idle"
    /\ form = NoForm

\* ------------------------------------------- the store, called directly ----
StoreAdd ==
    \E data \in StoreInputs :
        /\ add_record(data)
        /\ last' = [op |-> "add", id |-> 0, data |-> data, before |-> table]
        /\ prev' = last
        /\ UNCHANGED <<search, chart, pdfVars, form>>

StoreUpdate ==
    \E record_id \in 1..(MaxId + 1), data \in StoreInputs :
        /\ update_record(record_id, data)
        /\ last' = [op |-> "update", id |-> record_id, data |-> data, before |-> table]
        /\ prev' = last
        /\ UNCHANGED <<search, chart, pdfVars, form>>

StoreDelete ==
    \E record_id \in 1..(MaxId + 1) :
        /\ delete_record(record_id)
        /\ last' = [op |-> "delete", id |-> record_id, data |-> <<>>, before |-> table]
        /\ prev' = last
        /\ UNCHANGED <<search, chart, pdfVars, form>>

Next == StoreAdd \/ StoreUpdate \/ StoreDelete

Spec == Init /\ [][Next]_vars

\* ------------------------------------------------------------ claims ----
RowOf(tbl, k) == tbl[CHOOSE i \in 1..Len(tbl) : tbl[i]["id"].n = k]

HoldsTuple(row, data) ==
    \A i \in 1..Len(SchemaFields) : row[SchemaFields[i]] = data[i]

WellTyped(data) ==
    \A i \in 1..Len(SchemaFields) :
        data[i].t = (IF ColumnAffinity(SchemaFields[i]) = "REAL" THEN "real" ELSE "text")

\* C1: the rows of products have pairwise distinct identifiers, no identifier
\* is handed out twice (also after the row holding it, the highest one
\* included, was deleted), and update_record leaves the identifiers of the
\* table as they were.
C1_IdentifiersUniqueNeverReused ==
    /\ \A i, j \in 1..Len(table) : i # j => table[i]["id"] # table[j]["id"]
    /\ \A i, j \in 1..Len(assigned) : i # j => assigned[i] # assigned[j]
    /\ \A k \in RowIds(table) : \E i \in 1..Len(assigned) : assigned[i] = k
    /\ last.op = "update" =>
          /\ Len(table) = Len(last.before)
          /\ \A i \in 1..Len(table) : table[i]["id"] = last.before[i]["id"]

C1_Witness ==
    /\ last.op = "add"
    /\ prev.op = "delete"
    /\ Len(prev.before) > 0
    /\ prev.id = MaxRowId(prev.before)
    /\ Len(assigned) >= 3

OneNewRow ==
    /\ Len(table) = Len(last.before) + 1
    /\ Cardinality(RowIds(table) \ RowIds(last.before)) = 1
    /\ \A i \in 1..Len(last.before) : table[i] = last.before[i]

\* C2 as stated: after add_record(data) the table read back has exactly one
\* new row, and that row holds the 21 values of data, each in the column of
\* its position, unchanged, for every tuple data.
C2_Original ==
    last.op = "add" =>
        /\ OneNewRow
        /\ HoldsTuple(table[Len(table)], last.data)

\* C2 amended: after add_record(data) the table read back has exactly one new
\* row; when every value of data is a string for a TEXT column and a float
\* for a REAL column, that row holds the 21 values unchanged.
C2_RoundTripTyped ==
    last.op = "add" =>
        /\ OneNewRow
        /\ WellTyped(last.data) => HoldsTuple(table[Len(table)], last.data)

C2_Witness ==
    /\ last.op = "add"
    /\ WellTyped(last.data)
    /\ Len(last.before) >= 1
    /\ last.data # prev.data

\* C3: update_record and delete_record with an identifier that no row has
\* leave the table as it was: same rows, same identifiers, same values.
C3_AbsentIdIsNoOp ==
    (last.op \in {"update", "delete"} /\ last.id \notin RowIds(last.before))
        => table = last.before

C3_Witness ==
    /\ prev.op = "update"
    /\ prev.id \notin RowIds(prev.before)
    /\ last.op = "delete"
    /\ last.id \notin RowIds(last.before)
    /\ Len(table) >= 2

UpdateThenDelete ==
    /\ prev.op = "update"
    /\ last.op = "delete"
    /\ prev.id \in RowIds(prev.before)
    /\ last.id \in RowIds(prev.before)
    /\ prev.id # last.id

FrameOfUpdateThenDelete ==
    /\ prev.id \in RowIds(table)
    /\ last.id \notin RowIds(table)
    /\ \A k \in RowIds(prev.before) \ {prev.id, last.id} :
          /\ k \in RowIds(table)
          /\ RowOf(table, k) = RowOf(prev.before, k)
    /\ RowIds(table) \subseteq RowIds(prev.before)

\* C4 as stated: after update_record(I, data) and then delete_record(J), for
\* existing I # J, row I is present and holds exactly the 21 values of data
\* (for every data), row J is gone and every other row is unchanged.
C4_Original ==
    UpdateThenDelete =>
        /\ FrameOfUpdateThenDelete
        /\ prev.id \in RowIds(table) => HoldsTuple(RowOf(table, prev.id), prev.data)

\* C4 amended: after update_record(I, data) and then delete_record(J), for
\* existing I # J, row I is present, row J is gone and every other row is
\* unchanged; row I holds exactly the 21 values of data when every value is
\* a string for a TEXT column and a float for a REAL column.
C4_FrameTyped ==
    UpdateThenDelete =>
        /\ FrameOfUpdateThenDelete
        /\ (prev.id \in RowIds(table) /\ WellTyped(prev.data))
              => HoldsTuple(RowOf(table, prev.id), prev.data)

C4_Witness ==
    /\ UpdateThenDelete
    /\ WellTyped(prev.data)
    /\ Len(table) >= 2
    /\ RowOf(prev.before, prev.id) # RowOf(table, prev.id)

\* ------------------------------------------------------------ search ----
UpperChars == <<"A", "B", "C", "D", "E", "F", "G", "H", "I", "J", "K", "L", "M",
                "N", "O", "P", "Q", "R", "S", "T", "U", "V", "W", "X", "Y", "Z">>

LowerChars == <<"a", "b", "c", "d", "e", "f", "g", "h", "i", "j", "k", "l", "m",
                "n", "o", "p", "q", "r", "s", "t", "u", "v", "w", "x", "y", "z">>

\* A variant of the comparison that tells the two cases of a letter apart,
\* as LIKE does under PRAGMA case_sensitive_like.
FoldExact(ch) == ch

\* LIKE compares ASCII letters without regard to case; every other
\* character only equals itself.
Fold(ch) ==
    IF \E i \in 1..26 : UpperChars[i] = ch
    THEN LowerChars[CHOOSE i \in 1..26 : UpperChars[i] = ch]
    ELSE ch

\* SQLite's LIKE: % matches any run of characters, also the empty one, _
\* matches exactly one character, there is no escape character.
RECURSIVE Like(_, _)
Like(pat, str) ==
    IF Len(pat) = 0 THEN Len(str) = 0
    ELSE IF Head(pat) = "%" THEN
        \/ Like(Tail(pat), str)
        \/ Len(str) > 0 /\ Like(pat, Tail(str))
    ELSE IF Head(pat) = "_" THEN
        Len(str) > 0 /\ Like(Tail(pat), Tail(str))
    ELSE
        Len(str) > 0 /\ Fold(Head(pat)) = Fold(Head(str)) /\ Like(Tail(pat), Tail(str))

\* The text that LIKE sees for a stored value.
AsText(v) ==
    IF v.t = "int" THEN NatToText(v.n)
    ELSE IF v.t = "real" THEN RealToText(v.n)
    ELSE v.s

\* column LIKE ? in three-valued logic: NULL LIKE pattern is NULL.
SqlLike(v, pat) ==
    IF v.t = "null" THEN "null"
    ELSE IF Like(pat, AsText(v)) THEN "true" ELSE "false"

\* A variant of OR in which an unknown operand makes the result unknown.
SqlOrStrict(a, b) ==
    IF a = "null" \/ b = "null" THEN "null"
    ELSE IF a = "true" \/ b = "true" THEN "true"
    ELSE "false"

\* OR in three-valued logic: true when an operand is true, whatever the other.
SqlOr(a, b) ==
    IF a = "true" \/ b = "true" THEN "true"
    ELSE IF a = "null" \/ b = "null" THEN "null"
    ELSE "false"

\* f"%{keyword}%"
SearchPattern(kw) == <<"%">> \o kw \o <<"%">>

\* A variant of the query that leaves the vessel name out.
SearchWhereNoVessel(row, kw) ==
    SqlOr(SqlLike(row["batchno"], SearchPattern(kw)),
          SqlLike(row["material"], SearchPattern(kw))) = "true"

\* WHERE batchno LIKE ? OR material LIKE ? OR vessel_name LIKE ?
SearchWhere(row, kw) ==
    SqlOr(SqlOr(SqlLike(row["batchno"], SearchPattern(kw)),
                SqlLike(row["material"], SearchPattern(kw))),
          SqlLike(row["vessel_name"], SearchPattern(kw))) = "true"

SearchRecords(tbl, kw) == SelectSeq(tbl, LAMBDA row : SearchWhere(row, kw))

SearchAlphabet == {"a", "A", "_"}

RECURSIVE TextsUpTo(_)
TextsUpTo(k) ==
    IF k = 0 THEN {<<>>}
    ELSE TextsUpTo(k - 1)
         \cup {Append(str, ch) : str \in {t \in TextsUpTo(k - 1) : Len(t) = k - 1},
                                 ch \in SearchAlphabet}

Keywords == TextsUpTo(MaxKwLen)

\* batch number, material and vessel name of the rows to search
SearchTriples ==
    { <<NullV, NullV, NullV>>,
      <<TextV(<<"A", "b">>), NullV, NullV>>,
      <<NullV, TextV(<<"a", "%">>), TextV(<<>>)>>,
      <<NullV, NullV, TextV(<<"A">>)>> }

SearchInputs ==
    { [TypedTuple(1) EXCEPT ![PosIn(SchemaFields, "batchno")] = tr[1],
                            ![PosIn(SchemaFields, "material")] = tr[2],
                            ![PosIn(SchemaFields, "vessel_name")] = tr[3]]
      : tr \in SearchTriples }

SearchAdd ==
    \E data \in SearchInputs :
        /\ add_record(data)
        /\ search' = NoSearch
        /\ UNCHANGED <<histVars, chart, pdfVars, form>>

SearchDelete ==
    \E record_id \in RowIds(table) :
        /\ delete_record(record_id)
        /\ search' = NoSearch
        /\ UNCHANGED <<histVars, chart, pdfVars, form>>

\* show_search_filter with the Search button pressed
show_search_filter ==
    \E keyword \in Keywords :
        /\ search' = [done |-> TRUE, keyword |-> keyword, over |-> table,
                      result |-> SearchRecords(table, keyword)]
        /\ UNCHANGED <<storeVars, histVars, chart, pdfVars, form>>

NextSearch == SearchAdd \/ SearchDelete \/ show_search_filter

SpecSearch == Init /\ [][NextSearch]_vars

SearchedFields == {"batchno", "material", "vessel_name"}

\* kw occurs in str as it is, letter case included
Contains(str, kw) ==
    \E i \in 0..(Len(str) - Len(kw)) : \A j \in 1..Len(kw) : str[i + j] = kw[j]

\* the same character, or the two cases of one ASCII letter
SameLetter(a, b) ==
    \/ a = b
    \/ \E i \in 1..26 : {a, b} = {UpperChars[i], LowerChars[i]}

\* kw occurs in str when ASCII letters are compared without regard to case
ContainsNoCase(str, kw) ==
    \E i \in 0..(Len(str) - Len(kw)) : \A j \in 1..Len(kw) : SameLetter(str[i + j], kw[j])

NoWildcard(kw) == \A j \in 1..Len(kw) : kw[j] \notin {"%", "_"}

\* C5 as stated: the search returns exactly the records of the full list
\* whose batch number, material or vessel name contains the keyword as a
\* case-sensitive substring.
C5_Original ==
    search.done =>
        search.result = SelectSeq(search.over, LAMBDA row :
            \E f \in SearchedFields :
                row[f].t = "text" /\ Contains(row[f].s, search.keyword))

\* C5 amended: for a keyword without % and _, the search returns exactly the
\* records of the full list whose batch number, material or vessel name is
\* not NULL and contains the keyword as a substring when ASCII letters are
\* compared without regard to case.
C5_SearchNoCase ==
    (search.done /\ NoWildcard(search.keyword)) =>
        search.result = SelectSeq(search.over, LAMBDA row :
            \E f \in SearchedFields :
                row[f].t = "text" /\ ContainsNoCase(row[f].s, search.keyword))

C5_Witness ==
    /\ search.done
    /\ search.keyword = <<"a">>
    /\ Len(search.over) >= 2
    /\ Len(search.result) >= 1
    /\ Len(search.result) < Len(search.over)
    /\ \E i \in 1..Len(search.result) :
          \A f \in SearchedFields :
              search.result[i][f].t = "text" => ~Contains(search.result[i][f].s, <<"a">>)

\* C6 as stated: the search with the empty keyword returns the rows of the
\* full list whose three searched fields are all non-null.
C6_Original ==
    (search.done /\ search.keyword = <<>>) =>
        search.result = SelectSeq(search.over, LAMBDA row :
            \A f \in SearchedFields : row[f].t # "null")

\* C6 amended: the search with the empty keyword returns the rows of the
\* full list that have at least one of the three searched fields non-null.
C6_EmptyKeywordAnyNonNull ==
    (search.done /\ search.keyword = <<>>) =>
        search.result = SelectSeq(search.over, LAMBDA row :
            \E f \in SearchedFields : row[f].t # "null")

C6_Witness ==
    /\ search.done
    /\ search.keyword = <<>>
    /\ \E i \in 1..Len(search.over) :
          \A f \in SearchedFields : search.over[i][f].t = "null"
    /\ \E i \in 1..Len(search.result) :
          /\ search.result[i]["vessel_name"].t = "text"
          /\ search.result[i]["batchno"].t = "null"

\* ------------------------------------------------------------ report ----
\* rename_columns: the display label of every record field.  The label of
\* sio2 carries a subscript two in the source, written here as a plain 2.
rename_map ==
    [c \in AllCols \ {"id"} |->
        CASE c = "sno" -> "S.No"
          [] c = "date_of_intervention" -> "Date Of Intervention"
          [] c = "yard_location" -> "Yard Location"
          [] c = "batchno" -> "Batch No."
          [] c = "hold_no" -> "Hold No."
          [] c = "material" -> "Material"
          [] c = "lots_id" -> "Lots ID"
          [] c = "sgs_reference_id" -> "SGS Reference ID"
          [] c = "planned_qty" -> "Planned Qty (Tons)"
          [] c = "loaded_qty" -> "Loaded Qty (Tons)"
          [] c = "balance_qty" -> "Balance Qty (Tons)"
          [] c = "dry_colour" -> "Dry Colour"
          [] c = "wet_colour" -> "Wet Colour"
          [] c = "loi" -> "LOI"
          [] c = "mgo" -> "MgO"
          [] c = "sio2" -> "SiO2"
          [] c = "asbestos" -> "Asbestos"
          [] c = "truck_no" -> "Truck No."
          [] c = "remarks" -> "Remarks"
          [] c = "vessel_name" -> "Vessel Name"
          [] c = "sgs_report_id" -> "SGS Report ID"]

Labels == {"id"} \cup {rename_map[c] : c \in DOMAIN rename_map}

ColumnOfLabel(label) ==
    IF label = "id" THEN "id" ELSE CHOOSE c \in DOMAIN rename_map : rename_map[c] = label

\* rename_columns(df): the same rows keyed by label; id keeps its name.
rename_columns(frame) ==
    [i \in 1..Len(frame) |-> [label \in Labels |-> frame[i][ColumnOfLabel(label)]]]

\* pandas sums a float column skipping the missing values.
MeasureOf(v) == IF v.t = "real" THEN v.n ELSE 0

RECURSIVE SumColumn(_, _)
SumColumn(frame, measure) ==
    IF Len(frame) = 0 THEN 0
    ELSE MeasureOf(Head(frame)[measure]) + SumColumn(Tail(frame), measure)

\* A variant of the aggregation that takes the last value of each group
\* instead of the sum.
GroupByLast(frame, key, measure) ==
    LET keys == {frame[i][key] : i \in {j \in 1..Len(frame) : frame[j][key].t # "null"}}
    IN [k \in keys |->
          MeasureOf(frame[CHOOSE i \in 1..Len(frame) :
                             /\ frame[i][key] = k
                             /\ \A j \in (i + 1)..Len(frame) : frame[j][key] # k][measure])]

\* df.groupby(key)[measure].sum(): one entry per distinct key; groupby
\* drops the rows whose key is missing (dropna defaults to True).
GroupBySum(frame, key, measure) ==
    LET keys == {frame[i][key] : i \in {j \in 1..Len(frame) : frame[j][key].t # "null"}}
    IN [k \in keys |->
          SumColumn(SelectSeq(frame, LAMBDA row : row[key] = k), measure)]

ReportTypes == {"Material vs Loaded Qty", "Yard vs Planned Qty"}

GroupLabel(report_type) ==
    IF report_type = "Material vs Loaded Qty" THEN "Material" ELSE "Yard Location"

MeasureLabel(report_type) ==
    IF report_type = "Material vs Loaded Qty" THEN "Loaded Qty (Tons)" ELSE "Planned Qty (Tons)"

\* material, yard location, planned quantity, loaded quantity
ReportCells ==
    { <<TextV(<<"X">>), TextV(<<"N">>), RealV(10), RealV(100)>>,
      <<TextV(<<"X">>), TextV(<<"S">>), RealV(20), RealV(50)>>,
      <<TextV(<<"Y">>), TextV(<<"N">>), RealV(40), RealV(30)>>,
      <<TextV(<<>>), NullV, RealV(5), RealV(15)>>,
      <<NullV, TextV(<<"S">>), RealV(80), RealV(70)>> }

ReportInputs ==
    { [TypedTuple(1) EXCEPT ![PosIn(SchemaFields, "material")] = cell[1],
                            ![PosIn(SchemaFields, "yard_location")] = cell[2],
                            ![PosIn(SchemaFields, "planned_qty")] = cell[3],
                            ![PosIn(SchemaFields, "loaded_qty")] = cell[4]]
      : cell \in ReportCells }

ReportAdd ==
    \E data \in ReportInputs :
        /\ add_record(data)
        /\ chart' = NoChart
        /\ UNCHANGED <<histVars, search, pdfVars, form>>

ReportDelete ==
    \E record_id \in RowIds(table) :
        /\ delete_record(record_id)
        /\ chart' = NoChart
        /\ UNCHANGED <<histVars, search, pdfVars, form>>

\* show_reports on a table that is not empty
show_reports ==
    \E report_type \in ReportTypes :
        /\ Len(fetch_records) > 0
        /\ chart' = [done |-> TRUE, report_type |-> report_type,
                     over |-> rename_columns(fetch_records),
                     data |-> GroupBySum(rename_columns(fetch_records),
                                         GroupLabel(report_type),
                                         MeasureLabel(report_type))]
        /\ UNCHANGED <<storeVars, histVars, search, pdfVars, form>>

NextReport == ReportAdd \/ ReportDelete \/ show_reports

SpecReport == Init /\ [][NextReport]_vars

RECURSIVE SumOfGroups(_, _)
SumOfGroups(keys, data) ==
    IF keys = {} THEN 0
    ELSE LET k == CHOOSE x \in keys : TRUE
         IN data[k] + SumOfGroups(keys \ {k}, data)

GroupValues(frame, key) == {frame[i][key] : i \in 1..Len(frame)}

SumWhere(frame, key, k, measure) ==
    SumColumn(SelectSeq(frame, LAMBDA row : row[key] = k), measure)

\* C7 as stated: the keys of the aggregation are exactly the distinct group
\* values of the record set, each key maps to the sum of the measure over the
\* records of its group, and the group sums add up to the sum of the measure
\* over the whole record set.
C7_Original ==
    chart.done =>
        LET g == GroupLabel(chart.report_type)
            m == MeasureLabel(chart.report_type)
        IN /\ DOMAIN chart.data = GroupValues(chart.over, g)
           /\ \A k \in DOMAIN chart.data : chart.data[k] = SumWhere(chart.over, g, k, m)
           /\ SumOfGroups(DOMAIN chart.data, chart.data) = SumColumn(chart.over, m)

\* C7 amended: the keys of the aggregation are exactly the distinct non-null
\* group values of the record set, each key maps to the sum of the measure
\* over the records of its group, and the group sums add up to the sum of the
\* measure over the records whose group value is not null.
C7_GroupSumsNonNull ==
    chart.done =>
        LET g == GroupLabel(chart.report_type)
            m == MeasureLabel(chart.report_type)
        IN /\ DOMAIN chart.data = {k \in GroupValues(chart.over, g) : k.t # "null"}
           /\ \A k \in DOMAIN chart.data : chart.data[k] = SumWhere(chart.over, g, k, m)
           /\ SumOfGroups(DOMAIN chart.data, chart.data)
                = SumColumn(SelectSeq(chart.over, LAMBDA row : row[g].t # "null"), m)

C7_Witness ==
    /\ chart.done
    /\ chart.report_type = "Material vs Loaded Qty"
    /\ Len(chart.over) = 3
    /\ DOMAIN chart.data = {TextV(<<"X">>), TextV(<<"Y">>)}
    /\ chart.data[TextV(<<"X">>)] = 150
    /\ chart.data[TextV(<<"Y">>)] = 30

\* -------------------------------------------------------- PDF export ----
max_rows_per_page == 25

\* A variant of the page count that rounds up instead of adding one.
CeilPages(total_rows) == (total_rows + max_rows_per_page - 1) \div max_rows_per_page

\* num_pages = (total_rows // max_rows_per_page) + 1
num_pages(total_rows) == (total_rows \div max_rows_per_page) + 1

Min(a, b) == IF a <= b THEN a ELSE b

\* A variant of the slice that starts one row late.
IlocLate(frame, start, end) == SubSeq(frame, start + 2, Min(end, Len(frame)))

\* df.iloc[start:end]: rows start .. end-1 counted from 0, cut at the end
\* of the frame; empty when start is at or past the end.
Iloc(frame, start, end) == SubSeq(frame, start + 1, Min(end, Len(frame)))

\* The frames to export: n rows, each standing for itself.
InitPdf ==
    /\ table = <<>>
    /\ seq = 0
    /\ assigned = <<>>
    /\ last = NoCall
    /\ prev = NoCall
    /\ search = NoSearch
    /\ chart = NoChart
    /\ df \in {[i \in 1..n |-> i] : n \in 0..MaxDfRows}
    /\ page = 0
    /\ sub_df = <<>>
    /\ slices = <<>>
    /\ saved = <<>>
    /\ pc = "start"
    /\ form = NoForm

\* pdf_pages is opened, total_rows and num_pages are computed
PdfBegin ==
    /\ pc = "start"
    /\ page' = 0
    /\ pc' = "loop"
    /\ UNCHANGED <<storeVars, histVars, search, chart, df, sub_df, slices, saved, form>>

\* for page in range(num_pages): the slice of the page
PdfSlice ==
    /\ pc = "loop"
    /\ page < num_pages(Len(df))
    /\ sub_df' = Iloc(df, page * max_rows_per_page,
                      page * max_rows_per_page + max_rows_per_page)
    /\ slices' = Append(slices, sub_df')
    /\ pc' = "render"
    /\ UNCHANGED <<storeVars, histVars, search, chart, df, page, saved, form>>

\* ax.table(cellText=sub_df.values, ...) and savefig: the page is written
PdfRender ==
    /\ pc = "render"
    /\ Len(sub_df) > 0
    /\ saved' = Append(saved, sub_df)
    /\ page' = page + 1
    /\ pc' = "loop"
    /\ UNCHANGED <<storeVars, histVars, search, chart, df, sub_df, slices, form>>

\* ax.table on a slice without rows: matplotlib reads cellText[0] to count
\* the columns and raises IndexError; the exception leaves the function.
PdfRaise ==
    /\ pc = "render"
    /\ Len(sub_df) = 0
    /\ pc' = "raised"
    /\ UNCHANGED <<storeVars, histVars, search, chart, df, page, sub_df, slices, saved, form>>

\* pdf_pages.close(); return pdf_bytes
PdfFinish ==
    /\ pc = "loop"
    /\ page >= num_pages(Len(df))
    /\ pc' = "done"
    /\ UNCHANGED <<storeVars, histVars, search, chart, df, page, sub_df, slices, saved, form>>

NextPdf == PdfBegin \/ PdfSlice \/ PdfRender \/ PdfRaise \/ PdfFinish

SpecPdf == InitPdf /\ [][NextPdf]_vars

\* C8: for every record set of n rows, df_to_pdf_bytes completes with a
\* document of floor(n/25)+1 pages; when n is a multiple of 25 (0 included)
\* the last page has no data rows, otherwise no page is empty.
C8_PageCount ==
    /\ pc # "raised"
    /\ pc = "done" =>
          /\ Len(saved) = (Len(df) \div 25) + 1
          /\ (Len(df) % 25 = 0) => Len(saved[Len(saved)]) = 0
          /\ (Len(df) % 25 # 0) => \A p \in 1..Len(saved) : Len(saved[p]) > 0

RECURSIVE Concat(_)
Concat(seqs) == IF Len(seqs) = 0 THEN <<>> ELSE Head(seqs) \o Concat(Tail(seqs))

\* C9: the slices that df_to_pdf_bytes takes partition the rows: slice p
\* (from 0) holds rows 25p up to but not including min(25p+25, n) in their
\* order, no slice holds more than 25 rows, and when the function has left
\* its loop every row is on exactly one slice and the slices put together
\* give back the record set.
C9_PagesPartitionRows ==
    /\ \A p \in 0..(Len(slices) - 1) :
          LET lo == 25 * p
              hi == IF 25 * p + 25 < Len(df) THEN 25 * p + 25 ELSE Len(df)
          IN /\ Len(slices[p + 1]) = (IF hi > lo THEN hi - lo ELSE 0)
             /\ Len(slices[p + 1]) <= 25
             /\ \A j \in 1..Len(slices[p + 1]) : slices[p + 1][j] = df[lo + j]
    /\ pc \in {"done", "raised"} =>
          /\ Concat(slices) = df
          /\ \A r \in 1..Len(df) :
                Cardinality({pj \in {<<p, j>> : p \in 1..Len(slices), j \in 1..25} :
                               /\ pj[2] <= Len(slices[pj[1]])
                               /\ slices[pj[1]][pj[2]] = df[r]}) = 1

C9_Witness ==
    /\ pc = "done"
    /\ Len(slices) = 3
    /\ Len(slices[3]) = 1
    /\ Len(slices[1]) = 25

\* ------------------------------------------------------------- forms ----
\* The text of k in at least width digits, zero-padded on the left.
RECURSIVE PadText(_, _)
PadText(k, width) ==
    IF Len(NatToText(k)) >= width THEN NatToText(k)
    ELSE <<"0">> \o PadText(k, width - 1)

\* str(date): the ISO form YYYY-MM-DD of the value of st.date_input.
StrOfDate(v) ==
    TextV(PadText(v.n \div 10000, 4) \o <<"-">> \o PadText((v.n \div 100) % 100, 2)
          \o <<"-">> \o PadText(v.n % 100, 2))

\* str(x) as the forms use it: on the date widget only.
PyStr(v) == IF v.t = "date" THEN StrOfDate(v) ELSE v

\* The widget variables in the order of the data tuple of add_new_record.
AddFormTuple ==
    << "sno", "date_of_intervention", "yard_location", "batchno", "hold_no",
       "material", "lots_id", "sgs_reference_id", "planned_qty", "loaded_qty",
       "balance_qty", "dry_colour", "wet_colour", "loi", "mgo", "sio2",
       "asbestos", "truck_no", "remarks", "vessel_name", "sgs_report_id" >>

\* A variant of the update tuple with two neighbouring quantities exchanged.
UpdateFormTupleSwapped ==
    << "sno", "date_of_intervention", "yard_location", "batchno", "hold_no",
       "material", "lots_id", "sgs_reference_id", "loaded_qty", "planned_qty",
       "balance_qty", "dry_colour", "wet_colour", "loi", "mgo", "sio2",
       "asbestos", "truck_no", "remarks", "vessel_name", "sgs_report_id" >>

\* The widget variables in the order of the data tuple of show_all_records.
UpdateFormTuple ==
    << "sno", "date_of_intervention", "yard_location", "batchno", "hold_no",
       "material", "lots_id", "sgs_reference_id", "planned_qty", "loaded_qty",
       "balance_qty", "dry_colour", "wet_colour", "loi", "mgo", "sio2",
       "asbestos", "truck_no", "remarks", "vessel_name", "sgs_report_id" >>

\* data = (sno, str(date_of_intervention), yard_location, ...)
FormData(order, widgets) ==
    [i \in 1..Len(order) |->
        IF order[i] = "date_of_intervention" THEN PyStr(widgets[order[i]])
        ELSE widgets[order[i]]]

FormDates == {20240105, 20251231}

\* What the widgets return: a str for st.text_input and st.text_area, a
\* float for st.number_input, a date for st.date_input.
WidgetValues(k, ymd) ==
    [c \in AllCols \ {"id"} |->
        IF c = "date_of_intervention" THEN DateV(ymd)
        ELSE TypedTuple(k)[PosIn(SchemaFields, c)]]

\* ids[i] on the Python list ids, counted from 0
PyIndex(list, i) == list[i + 1]

\* ids = df["id"].tolist(); selected_id = ids[selected_idx - 1]
SelectedId(frame, selected_idx) ==
    LET ids == [i \in 1..Len(frame) |-> frame[i]["id"].n]
    IN PyIndex(ids, selected_idx - 1)

\* add_new_record with the form submitted
add_new_record ==
    \E k \in 1..2, ymd \in FormDates :
        /\ add_record(FormData(AddFormTuple, WidgetValues(k, ymd)))
        /\ form' = [name |-> "add", widgets |-> WidgetValues(k, ymd),
                    selected_idx |-> 0, shown |-> fetch_records]
        /\ UNCHANGED <<histVars, search, chart, pdfVars>>

\* show_all_records with Save Changes pressed: the row numbers shown are
\* df_display.index = 1 .. len(df).  The export that follows the form has
\* no effect on the table.
show_all_records_update ==
    \E selected_idx \in 1..Len(fetch_records), k \in 1..2, ymd \in FormDates :
        /\ Len(fetch_records) > 0
        /\ update_record(SelectedId(fetch_records, selected_idx),
                         FormData(UpdateFormTuple, WidgetValues(k, ymd)))
        /\ form' = [name |-> "update", widgets |-> WidgetValues(k, ymd),
                    selected_idx |-> selected_idx, shown |-> fetch_records]
        /\ UNCHANGED <<histVars, search, chart, pdfVars>>

\* show_all_records with Delete Record pressed
show_all_records_delete ==
    \E selected_idx \in 1..Len(fetch_records) :
        /\ Len(fetch_records) > 0
        /\ delete_record(SelectedId(fetch_records, selected_idx))
        /\ form' = [name |-> "delete", widgets |-> <<>>,
                    selected_idx |-> selected_idx, shown |-> fetch_records]
        /\ UNCHANGED <<histVars, search, chart, pdfVars>>

NextForms == add_new_record \/ show_all_records_update \/ show_all_records_delete

SpecForms == Init /\ [][NextForms]_vars

\* The row holds in every column the value entered in the form field of
\* that column, the date as its ISO text.
HoldsForm(row, widgets) ==
    \A c \in AllCols \ {"id"} :
        row[c] = (IF c = "date_of_intervention" THEN StrOfDate(widgets[c]) ELSE widgets[c])

\* C10: the add form and the update form hand the 21 values to the store in
\* the order the INSERT and UPDATE bind them, so every value entered is
\* stored in the column of its field and in no other; the update form
\* rewrites the record shown at the selected row number and no other.
C10_FormsMatchColumns ==
    /\ form.name = "add" =>
          /\ Len(table) = Len(form.shown) + 1
          /\ HoldsForm(table[Len(table)], form.widgets)
          /\ \A c, d \in AllCols \ {"id"} :
                c # d => table[Len(table)][c] # table[Len(table)][d]
    /\ form.name = "update" =>
          /\ Len(table) = Len(form.shown)
          /\ table[form.selected_idx]["id"] = form.shown[form.selected_idx]["id"]
          /\ HoldsForm(table[form.selected_idx], form.widgets)
          /\ \A i \in 1..Len(table) : i # form.selected_idx => table[i] = form.shown[i]

C10_Witness ==
    /\ form.name = "update"
    /\ Len(table) >= 2
    /\ form.selected_idx = 2
    /\ table[2]["id"].n > 2
    /\ table[2] # form.shown[2]
    /\ table[1]["sno"] # table[2]["sno"]

====
